---- MODULE Spec2Model ----
(***************************************************************************)
(* Model of the DirectShow frame grabber component                         *)
(* (src/src/DirectShowFrameGrabber/DirectShowFrameGrabber.cpp):            *)
(* the lifecycle controller (start / startCapturing / stop), the frame     *)
(* dispatcher (SampleCB) and the frame processor (handleFrame).            *)
(* Init is the state of a driver object whose constructor has completed.   *)
(***************************************************************************)
EXTENDS Integers, Sequences, FiniteSets, TLC

\* ------------------------------------------------------------------ bounds
MaxDivisor == 2
MaxTime    == 2
MaxFrames  == 3
MaxPending == 1
MaxCallbacks == 2

\* ------------------------------------------------- stand-ins for constants
\* m_lastTime( -1e10 ): the initial "previous timestamp"; the model's time
\* axis is 0..MaxTime and 0 stands for that value.
InitLastTime == 0
\* bytes per pixel in the size check of SampleCB
BytesPerPixel == 3

S_OK == "S_OK"
E_FAIL == "E_FAIL"

\* --------------------------------------------------------------- variables
VARIABLES
    m_divisor,        \* int m_divisor
    m_autoGPUUpload,  \* bool m_autoGPUUpload
    m_desiredWidth,   \* int m_desiredWidth
    m_desiredHeight,  \* int m_desiredHeight
    m_sampleWidth,    \* LONG m_sampleWidth
    m_sampleHeight,   \* LONG m_sampleHeight
    connected,        \* isConnected() of m_outPortRAW, m_colorOutPort, m_outPort
    m_running,        \* Component::m_running
    m_nFrames,        \* int m_nFrames
    m_lastTime,       \* double m_lastTime
    m_undistorter,    \* identity of the current Vision::Undistortion object
    graph,            \* run state of the filter graph behind m_pMediaControl
    initCallbacks,    \* startCapturing callbacks registered with OpenCLManager
    oclInitialized,   \* OpenCLManager::isInitialized()
    nInitGraph,       \* number of executions of initGraph()
    crashed,          \* the process took a hardware fault
    last,             \* observation: the operation executed last
    cbTime,           \* observation: timestamp of the most recent callback
    cbCounted,        \* observation: the most recent callback advanced m_nFrames
    passed,           \* observation: callbacks so far that neither repeated the
                      \* preceding timestamp nor were made while stopped
    restarted,        \* observation: start() has followed a stop()
    pushed,           \* observation: the intrinsics model delivered last
    ctor,             \* initGraph(): its inputs, its position, its results
    m_timeOffset,     \* attribute timeOffset, in milliseconds
    cb,               \* the capture thread inside SampleCB: position and locals
    published,        \* observation: the measurements sent, in order
    destroyed         \* the destructor has run

cfgVars == <<m_divisor, m_autoGPUUpload, m_desiredWidth, m_desiredHeight,
             m_sampleWidth, m_sampleHeight, connected, ctor, m_timeOffset,
             cb, published, destroyed>>
dispVars == <<m_nFrames, m_lastTime, cbTime, cbCounted, passed>>
lifeVars == <<m_running, graph, initCallbacks, oclInitialized, nInitGraph>>
vars == <<cfgVars, dispVars, lifeVars, m_undistorter, crashed, last, restarted,
          pushed>>

Divisors == {-2, 0} \cup (1..MaxDivisor)
\* native timestamps the capture subsystem reports (stream time, never -1e10)
Times    == 1..MaxTime
\* identities of the intrinsics models that can be installed
Models   == {0, 1}
\* negotiated frame sizes and configured desired sizes
Widths   == {2, 4}
Heights  == {2}
DesiredWidths  == {2}
DesiredHeights == {2}
\* frame sizes and desired sizes where the size is what is looked at
FrameSizes   == {1, 2, 4}
DesiredSizes == {-1, 0, 2}
\* IMediaSample::GetSize(): one byte short of a full frame, or a full frame
Sizes    == {m_sampleWidth * m_sampleHeight * BytesPerPixel - 1,
             m_sampleWidth * m_sampleHeight * BytesPerPixel}

Ports    == [raw : BOOLEAN, color : BOOLEAN, out : BOOLEAN]

\* ------------------------------------------------------------ pure helpers
Abs(x) == IF x < 0 THEN -x ELSE x

\* C++ operator % on int (truncating division): the sign follows the dividend.
\* Only defined for b # 0.
CRem(a, b) == IF a >= 0 THEN a % Abs(b) ELSE -((-a) % Abs(b))

\* Vision::Image as far as the frame processor distinguishes images:
\* dimensions, channels, whether it went through cv::resize, how often
\* Undistortion::undistort was applied and with which model.
Image(w, h) ==
    [w |-> w, h |-> h, channels |-> 3, resized |-> FALSE, onGPU |-> FALSE,
     undistorted |-> 0, model |-> -1]

\* m_undistorter->undistort( image )
undistort(image) ==
    [image EXCEPT !.undistorted = @ + 1, !.model = m_undistorter]

\* Image::CvtColor( CV_BGR2GRAY, 1 ) / cv::cvtColor( .., COLOR_RGB2GRAY )
CvtColor(image) == [image EXCEPT !.channels = 1]

\* the resize condition of handleFrame
needsResize_both(image) ==
    /\ m_desiredWidth > 0 /\ m_desiredHeight > 0
    /\ (image.w > m_desiredWidth /\ image.h > m_desiredHeight)
needsResize(image) ==
    /\ m_desiredWidth > 0 /\ m_desiredHeight > 0
    /\ (image.w > m_desiredWidth \/ image.h > m_desiredHeight)

\* cv::resize into a new image of the desired size
resize(image) ==
    [image EXCEPT !.w = m_desiredWidth, !.h = m_desiredHeight,
                  !.resized = TRUE, !.onGPU = FALSE]

\* bColorImageDistorted after the colour branch of handleFrame: it starts
\* TRUE and is cleared only when the colour port is connected.
bColorImageDistorted_always == TRUE
bColorImageDistorted == ~connected.color

Measurement(port, t, image) == [port |-> port, t |-> t, image |-> image]

\* handleFrame( utTime, bufferImage ): the measurements sent, in order, and
\* the image operations performed.
handleFrame(utTime, bufferImage0) ==
    LET upload      == m_autoGPUUpload /\ oclInitialized
        bufferImage == IF upload THEN [bufferImage0 EXCEPT !.onGPU = TRUE]
                       ELSE bufferImage0
        doResize    == needsResize(bufferImage)
        \* boost::shared_ptr< Vision::Image > pColorImage: <<>> is the null pointer
        pColor0     == IF doResize THEN <<resize(bufferImage)>> ELSE <<>>
        pColor1     == IF connected.color
                       THEN IF pColor0 # <<>> THEN <<undistort(pColor0[1])>>
                            ELSE <<undistort(bufferImage)>>
                       ELSE pColor0
        grey0       == IF pColor1 # <<>> THEN CvtColor(pColor1[1])
                       ELSE CvtColor(bufferImage)
        grey1       == IF bColorImageDistorted THEN undistort(grey0) ELSE grey0
        sentRaw     == IF connected.raw
                       THEN <<Measurement("OutputRAW", utTime, bufferImage)>>
                       ELSE <<>>
        sentColor   == IF connected.color
                       THEN <<Measurement("ColorOutput", utTime, pColor1[1])>>
                       ELSE <<>>
        sentGrey    == IF connected.out
                       THEN <<Measurement("Output", utTime, grey1)>>
                       ELSE <<>>
        work        == (IF upload THEN <<"uMat">> ELSE <<>>)
                       \o (IF doResize THEN <<"resize">> ELSE <<>>)
                       \o (IF connected.raw THEN <<"Clone">> ELSE <<>>)
                       \o (IF connected.color THEN <<"undistort">> ELSE <<>>)
                       \o (IF connected.out THEN <<"CvtColor">> ELSE <<>>)
                       \o (IF connected.out /\ bColorImageDistorted
                           THEN <<"undistort">> ELSE <<>>)
    IN  [sent |-> sentRaw \o sentColor \o sentGrey, work |-> work,
         resized |-> doResize, utTime |-> utTime]

\* ------------------------------------------------------------- timestamps
\* A long of the target platform has 32 bits. Its values are kept as two
\* limbs, value = hi * Limb + lo with 0 <= lo < Limb, so that products which
\* leave the 32-bit range can be told from those that stay in it.
Limb == 65536
\* 1000000L = MillionHi * Limb + MillionLo
MillionHi == 15
MillionLo == 16960

\* the mathematical value of 1000000 * offset
Product(offset) ==
    LET low == offset * MillionLo
        lo  == low % Limb
    IN  [hi |-> offset * MillionHi + (low - lo) \div Limb, lo |-> lo]

\* the value is one of a 32-bit long
FitsLong(p) == p.hi >= -(Limb \div 2) /\ p.hi < Limb \div 2
\* the value reduced to 32 bits, two's complement
WrapLong(p) ==
    [hi |-> ((p.hi + Limb \div 2) % Limb) - Limb \div 2, lo |-> p.lo]

\* 1000000L * m_timeOffset: when the product does not fit a long the
\* multiplication overflows, and the result is the wrapped value, or the
\* full value where the compiler has widened the multiplication
LongMul(offset) ==
    IF FitsLong(Product(offset)) THEN {Product(offset)}
    ELSE {WrapLong(Product(offset)), Product(offset)}

\* m_syncer.convertNativeToLocal( Time ): the local time that corresponds
\* to the native time, as a timestamp with no shift applied yet
convertNativeToLocal(Time) ==
    [native |-> Time, plus |-> [hi |-> 0, lo |-> 0]]

\* utTime + p, for a timestamp without shift
Shifted(utTime, p) == [utTime EXCEPT !.plus = p]

NoFrame == [sent |-> <<>>, work |-> <<>>, resized |-> FALSE,
            utTime |-> convertNativeToLocal(0)]

\* ---------------------------------------------------------- the dispatcher
\* if ( Time == m_lastTime )
IsDoubleFrame_never(Time) == FALSE
IsDoubleFrame(Time) == Time = m_lastTime

\* the left operand of || in  if ( !m_running || ( ++m_nFrames % m_divisor ) )
NotRunning_ignored == FALSE
NotRunning == ~m_running

\* ( ++m_nFrames % m_divisor ), n being the incremented counter: "drop" when
\* the remainder is non-zero, "pass" when it is zero.  With m_divisor = 0 the
\* expression is undefined: the integer division traps ("fault") or yields
\* an arbitrary value.
DivisorTest_postIncrement(n) ==
    IF m_divisor = 0 THEN {"fault", "drop", "pass"}
    ELSE IF CRem(n - 1, m_divisor) # 0 THEN {"drop"} ELSE {"pass"}
DivisorTest(n) ==
    IF m_divisor = 0 THEN {"fault", "drop", "pass"}
    ELSE IF CRem(n, m_divisor) # 0 THEN {"drop"} ELSE {"pass"}

\* if ( pSample->GetSize() < m_sampleWidth * m_sampleHeight * 3 )
InvalidSampleSize_noDepth(size) == size < m_sampleWidth * m_sampleHeight
InvalidSampleSize(size) ==
    size < m_sampleWidth * m_sampleHeight * BytesPerPixel

\* the HRESULT of each return statement of SampleCB
ReturnStatus_failing(path) ==
    IF path \in {"size", "pointer"} THEN E_FAIL ELSE S_OK
ReturnStatus(path) == S_OK

\* the ways through SampleCB( Time, pSample ) for a sample of the given
\* size; pSample->GetPointer is called, and may fail, only on the way that
\* passes the size check
Paths(Time, size) ==
    IF IsDoubleFrame(Time) THEN {"double"}
    ELSE IF NotRunning THEN {"notRunning"}
    ELSE UNION { IF t = "fault" THEN {"fault"}
                 ELSE IF t = "drop" THEN {"divisor"}
                 ELSE IF InvalidSampleSize(size) THEN {"size"}
                 ELSE {"pointer", "forwarded"} : t \in DivisorTest(m_nFrames + 1) }

\* the ways on which ++m_nFrames is executed: all that get past !m_running
Counted_forwardedOnly(path) == path \in {"pointer", "forwarded"}
Counted(path) == path \notin {"double", "notRunning"}

\* STDMETHODIMP DirectShowFrameGrabber::SampleCB( double Time, IMediaSample *pSample )
SampleCB ==
    /\ ~crashed
    /\ m_nFrames < MaxFrames
    /\ \E Time \in Times, size \in Sizes :
         \E path \in Paths(Time, size), shift \in LongMul(m_timeOffset) :
           LET repeat == cbTime = Time
               utTime == convertNativeToLocal(Time)
               frame  == IF path = "forwarded"
                         THEN handleFrame(Shifted(utTime, shift),
                                          Image(m_sampleWidth, m_sampleHeight))
                         ELSE NoFrame
           IN  /\ m_lastTime' = IF path = "double" THEN m_lastTime ELSE Time
               /\ m_nFrames' = IF Counted(path)
                               THEN m_nFrames + 1 ELSE m_nFrames
               /\ crashed' = (path = "fault")
               /\ cbTime' = Time
               /\ cbCounted' = (m_nFrames' # m_nFrames)
               /\ passed' = IF ~repeat /\ m_running THEN passed + 1 ELSE passed
               /\ last' = [op |-> "SampleCB", wasRunning |-> m_running,
                           cmds |-> <<>>, registered |-> 0, afterStop |-> FALSE,
                           time |-> Time, size |-> size,
                           repeat |-> repeat, prevCounted |-> cbCounted,
                           index |-> passed, path |-> path,
                           returned |-> path # "fault",
                           status |-> ReturnStatus(path),
                           nBefore |-> m_nFrames, nAfter |-> m_nFrames',
                           handled |-> path = "forwarded", frame |-> frame,
                           afterRestart |-> restarted,
                           intrinsics |-> pushed]
    /\ UNCHANGED <<cfgVars, lifeVars, m_undistorter, restarted, pushed>>

\* ----------------------------------------------------- lifecycle controller
\* the effect of a sequence of IMediaControl commands on the graph state
RECURSIVE Apply(_, _)
Apply(state, cmds) ==
    IF cmds = <<>> THEN state
    ELSE Apply(CASE Head(cmds) = "Run"   -> "Running"
                 [] Head(cmds) = "Pause" -> "Paused"
                 [] Head(cmds) = "Stop"  -> "Stopped",
               Tail(cmds))

\* void DirectShowFrameGrabber::startCapturing(): m_pMediaControl is set by
\* initGraph, so the command is always issued
startCapturing == <<"Run">>

\* the IMediaControl commands start() issues itself
startCommands_eager == IF ~m_running THEN startCapturing ELSE <<>>
startCommands_always == IF ~m_autoGPUUpload THEN startCapturing ELSE <<>>
startCommands ==
    IF ~m_running /\ ~m_autoGPUUpload THEN startCapturing ELSE <<>>

\* the callbacks start() hands to OpenCLManager::registerInitCallback
startRegisters ==
    IF ~m_running /\ m_autoGPUUpload THEN 1 ELSE 0

\* initGraph() calls made by start(): none
startInitGraph_again == IF ~m_running THEN 1 ELSE 0
startInitGraph == 0

\* void DirectShowFrameGrabber::start()
start ==
    /\ ~crashed
    /\ ~destroyed
    /\ initCallbacks + startRegisters <= MaxPending
    /\ graph' = Apply(IF startInitGraph > 0 THEN "Paused" ELSE graph,
                      startCommands)
    /\ initCallbacks' = initCallbacks + startRegisters
    /\ nInitGraph' = nInitGraph + startInitGraph
    /\ m_running' = TRUE
    /\ restarted' = (restarted \/ last.op = "stop")
    /\ last' = [op |-> "start", wasRunning |-> m_running,
                cmds |-> startCommands, registered |-> startRegisters,
                afterStop |-> last.op = "stop",
                graphRan |-> last.op = "stop" /\ last.graphWas = "Running"]
    /\ UNCHANGED <<cfgVars, dispVars, oclInitialized, m_undistorter, crashed,
                   pushed>>

\* the IMediaControl commands stop() issues
stopCommands_stop == IF m_running THEN <<"Stop">> ELSE <<>>
stopCommands == IF m_running THEN <<"Pause">> ELSE <<>>

\* void DirectShowFrameGrabber::stop()
stop ==
    /\ ~crashed
    /\ ~destroyed
    /\ graph' = Apply(graph, stopCommands)
    /\ m_running' = FALSE
    /\ restarted' = FALSE
    /\ last' = [op |-> "stop", wasRunning |-> m_running,
                cmds |-> stopCommands, registered |-> 0, afterStop |-> FALSE,
                graphWas |-> graph]
    /\ UNCHANGED <<cfgVars, dispVars, initCallbacks, oclInitialized,
                   nInitGraph, m_undistorter, crashed, pushed>>

\* a call of the function object boost::bind( &...::startCapturing, this )
\* made: through a pointer to a driver that was destroyed the call is
\* undefined; it traps, or startCapturing runs on the memory left behind
boundCall(gone) == IF gone THEN {"fault", "call"} ELSE {"call"}

\* OpenCLManager invokes the callbacks registered by start():
\* boost::bind( &DirectShowFrameGrabber::startCapturing, this ).
\* start() only hands the callback over; when the manager calls it is the
\* manager's choice, so this step may follow a start() at any distance.
initCallback ==
    /\ ~crashed
    /\ m_autoGPUUpload
    /\ ~oclInitialized \/ initCallbacks > 0
    /\ LET cmds == [i \in 1..initCallbacks |-> startCapturing[1]]
       IN  \E outcome \in boundCall(destroyed /\ cmds # <<>>) :
             /\ graph' = IF outcome = "fault" THEN graph
                         ELSE Apply(graph, cmds)
             /\ crashed' = (outcome = "fault")
             /\ last' = [op |-> "initCallback", wasRunning |-> m_running,
                         cmds |-> cmds, registered |-> 0,
                         afterStop |-> FALSE, onDestroyed |-> destroyed]
    /\ oclInitialized' = TRUE
    /\ initCallbacks' = 0
    /\ UNCHANGED <<cfgVars, dispVars, m_running, nInitGraph, m_undistorter,
                   restarted, pushed>>

\* the IMediaControl commands the destructor issues
destructorCommands == <<"Stop">>

\* DirectShowFrameGrabber::~DirectShowFrameGrabber(): stops the graph; the
\* callbacks handed to the OpenCLManager stay registered
destructor ==
    /\ ~crashed
    /\ ~destroyed
    /\ cb.pc = "idle"
    /\ graph' = Apply(graph, destructorCommands)
    /\ destroyed' = TRUE
    /\ last' = [op |-> "destructor", wasRunning |-> m_running,
                cmds |-> destructorCommands, registered |-> 0,
                afterStop |-> FALSE, pending |-> initCallbacks]
    /\ UNCHANGED <<m_divisor, m_autoGPUUpload, m_desiredWidth,
                   m_desiredHeight, m_sampleWidth, m_sampleHeight, connected,
                   ctor, m_timeOffset, cb, published, dispVars, m_running,
                   initCallbacks, oclInitialized, nInitGraph, m_undistorter,
                   crashed, restarted, pushed>>

\* the models with which the images a processed frame published were
\* undistorted
UndistortedWith(frame) ==
    { frame.sent[i].image.model : i \in { j \in DOMAIN frame.sent :
                                           frame.sent[j].image.undistorted > 0 } }

\* m_undistorter.reset( new Vision::Undistortion( *intrinsics ) ): the model
\* held after the push
resetUndistorter_kept(model) == m_undistorter
resetUndistorter(model) == model

\* the capture thread between two callbacks
Idle ==
    [pc |-> "idle", k |-> 0, ranWhenTested |-> {}, handled |-> {},
     stopSeen |-> FALSE, entry |-> -1, obj |-> -1, branch |-> "",
     colorModel |-> -1, resized |-> FALSE]

\* reset() releases the Undistortion object held so far. When the capture
\* thread is inside undistort() on that object, it goes on working on
\* released memory: the process faults, or it does not
ReleasedInUse == IF cb.pc = "undistort" THEN {FALSE, TRUE} ELSE {FALSE}

\* void DirectShowFrameGrabber::newIntrinsicsPush( intrinsics )
newIntrinsicsPush ==
    /\ ~crashed
    /\ \E model \in Models :
         /\ m_undistorter' = resetUndistorter(model)
         /\ pushed' = model
         /\ last' = [op |-> "newIntrinsicsPush", wasRunning |-> m_running,
                     cmds |-> <<>>, registered |-> 0, afterStop |-> FALSE,
                     model |-> model, replaced |-> pushed,
                     earlier |-> IF last.op = "SampleCB"
                                 THEN UndistortedWith(last.frame) ELSE {}]
    /\ crashed' \in ReleasedInUse
    /\ UNCHANGED <<cfgVars, dispVars, lifeVars, restarted>>

\* ------------------------------------------- SampleCB on the capture thread
\* SampleCB and handleFrame statement by statement, for the operations of
\* other threads that come in between. The capture subsystem calls SampleCB
\* serially: a callback is entered only when the previous one has returned.
MeasurementOf(port, model) ==
    [port |-> port, k |-> cb.k, model |-> model, entry |-> cb.entry,
     stopSeen |-> cb.stopSeen \/ ~m_running]

\* isConnected() of the port a measurement is sent on
isConnected_whileRunning(port) ==
    /\ m_running
    /\ CASE port = "OutputRAW"   -> connected.raw
         [] port = "ColorOutput" -> connected.color
         [] port = "Output"      -> connected.out
isConnected(port) ==
    CASE port = "OutputRAW"   -> connected.raw
      [] port = "ColorOutput" -> connected.color
      [] port = "Output"      -> connected.out

\* the statement of handleFrame that follows the block at pc
Successor_early(pc) ==
    CASE pc = "raw" -> "color" [] pc = "color" -> "return"
      [] pc = "grey" -> "return"
Successor(pc) ==
    CASE pc = "raw" -> "color" [] pc = "color" -> "grey"
      [] pc = "grey" -> "return"

\* what the callback thread does not write
calleeVars == <<m_divisor, m_autoGPUUpload, m_desiredWidth, m_desiredHeight,
                m_sampleWidth, m_sampleHeight, connected, ctor, m_timeOffset,
                destroyed, lifeVars, m_undistorter, last, restarted, pushed,
                cbTime, cbCounted, passed>>

\* back to the capture subsystem
Returned(c) ==
    [c EXCEPT !.pc = "idle", !.stopSeen = FALSE, !.entry = -1, !.obj = -1,
              !.branch = "", !.colorModel = -1, !.resized = FALSE]

\* lines 842-858: entry, duplicate test, m_lastTime = Time
cbEnter ==
    /\ ~crashed /\ cb.pc = "idle" /\ cb.k < MaxCallbacks
    /\ \E Time \in Times :
         IF IsDoubleFrame(Time)
         THEN /\ cb' = [cb EXCEPT !.k = @ + 1]
              /\ UNCHANGED m_lastTime
         ELSE /\ cb' = [cb EXCEPT !.k = @ + 1, !.pc = "running"]
              /\ m_lastTime' = Time
    /\ UNCHANGED <<calleeVars, m_nFrames, crashed, published>>

\* lines 860-861: the read of m_running, the counter, the divisor test
cbRunning ==
    /\ ~crashed /\ cb.pc = "running"
    /\ LET tested == [cb EXCEPT !.ranWhenTested =
                                   IF m_running THEN @ \cup {cb.k} ELSE @]
       IN  IF NotRunning
           THEN /\ cb' = Returned(tested)
                /\ UNCHANGED <<m_nFrames, crashed>>
           ELSE /\ m_nFrames' = m_nFrames + 1
                /\ \E t \in DivisorTest(m_nFrames + 1) :
                     /\ crashed' = (t = "fault")
                     /\ cb' = IF t = "pass"
                              THEN [tested EXCEPT !.pc = "sample"]
                              ELSE Returned(tested)
    /\ UNCHANGED <<calleeVars, m_lastTime, published>>

\* lines 863-874: size check and GetPointer
cbSample ==
    /\ ~crashed /\ cb.pc = "sample"
    /\ \E size \in Sizes, pointer \in BOOLEAN :
         cb' = IF InvalidSampleSize(size) \/ ~pointer
               THEN Returned(cb)
               ELSE [cb EXCEPT !.pc = "handle",
                               !.stopSeen = @ \/ ~m_running]
    /\ UNCHANGED <<calleeVars, m_lastTime, m_nFrames, crashed, published>>

\* lines 876-889 and 765-786: the image and its timestamp, handleFrame
\* entered, upload and resize
hfEnter ==
    /\ ~crashed /\ cb.pc = "handle"
    /\ cb' = [cb EXCEPT !.pc = "raw", !.entry = m_undistorter,
                        !.handled = @ \cup {cb.k},
                        !.resized = needsResize(Image(m_sampleWidth,
                                                      m_sampleHeight)),
                        !.stopSeen = @ \/ ~m_running]
    /\ UNCHANGED <<calleeVars, m_lastTime, m_nFrames, crashed, published>>

\* lines 788-790: the raw output
hfRaw ==
    /\ ~crashed /\ cb.pc = "raw"
    /\ published' = IF isConnected("OutputRAW")
                    THEN Append(published, MeasurementOf("OutputRAW", -1))
                    ELSE published
    /\ cb' = [cb EXCEPT !.pc = Successor("raw"),
                        !.stopSeen = @ \/ ~m_running]
    /\ UNCHANGED <<calleeVars, m_lastTime, m_nFrames, crashed>>

\* lines 792-797: colour port connected: m_undistorter-> is evaluated and
\* undistort entered
hfColor ==
    /\ ~crashed /\ cb.pc = "color"
    /\ cb' = IF isConnected("ColorOutput")
             THEN [cb EXCEPT !.pc = "undistort", !.obj = m_undistorter,
                             !.branch = "color",
                             !.stopSeen = @ \/ ~m_running]
             ELSE [cb EXCEPT !.pc = Successor("color"),
                             !.stopSeen = @ \/ ~m_running]
    /\ UNCHANGED <<calleeVars, m_lastTime, m_nFrames, crashed, published>>

\* lines 809-833: luminance port connected: conversion of the colour image
\* or of the buffer; undistort entered if no undistorted colour image exists
hfGrey ==
    /\ ~crashed /\ cb.pc = "grey"
    /\ IF ~isConnected("Output")
       THEN /\ cb' = [cb EXCEPT !.pc = Successor("grey"),
                                !.stopSeen = @ \/ ~m_running]
            /\ UNCHANGED published
       ELSE IF cb.colorModel = -1
       THEN /\ cb' = [cb EXCEPT !.pc = "undistort", !.obj = m_undistorter,
                                !.branch = "grey",
                                !.stopSeen = @ \/ ~m_running]
            /\ UNCHANGED published
       ELSE /\ published' = Append(published,
                                   MeasurementOf("Output", cb.colorModel))
            /\ cb' = [cb EXCEPT !.pc = Successor("grey"),
                                !.stopSeen = @ \/ ~m_running]
    /\ UNCHANGED <<calleeVars, m_lastTime, m_nFrames, crashed>>

\* lines 795-805 and 833-837: undistort returns, the image is sent
hfUndistort ==
    /\ ~crashed /\ cb.pc = "undistort"
    /\ LET port == IF cb.branch = "color" THEN "ColorOutput" ELSE "Output"
       IN  /\ published' = Append(published, MeasurementOf(port, cb.obj))
           /\ cb' = [cb EXCEPT !.pc = Successor(cb.branch),
                               !.colorModel = IF cb.branch = "color"
                                              THEN cb.obj ELSE @,
                               !.stopSeen = @ \/ ~m_running]
    /\ UNCHANGED <<calleeVars, m_lastTime, m_nFrames, crashed>>

\* lines 839 and 891: handleFrame returns, SampleCB returns S_OK
cbReturn ==
    /\ ~crashed /\ cb.pc = "return"
    /\ cb' = Returned(cb)
    /\ UNCHANGED <<calleeVars, m_lastTime, m_nFrames, crashed, published>>

\* ------------------------------------------------- initGraph(): devices
\* what initGraph() never writes, apart from the fields it sets at its end
grabVars == <<m_divisor, m_autoGPUUpload, m_desiredWidth, m_desiredHeight,
              connected, dispVars, m_undistorter, crashed, last, restarted,
              pushed, m_timeOffset, cb, published, destroyed>>

\* strings are sequences of letters; strstr( hay, needle ) != NULL
Contains(hay, needle) ==
    \E i \in 0..(Len(hay) - Len(needle)) :
        SubSeq(hay, i + 1, i + Len(needle)) = needle

\* friendly names and device paths of the enumerated devices, and the
\* configured cameraName / devicePath attributes
DeviceNames  == {<<0, 1>>, <<0, 2>>}
DevicePaths  == {<<1>>, <<2>>}
DesiredNames == {<<>>, <<0>>, <<2>>, <<3>>}
DesiredPaths == {<<>>, <<2>>, <<3>>}
\* what the property bag of a moniker yields: everything ("ok"),
\* BindToStorage fails ("nobind"), neither Description nor FriendlyName can
\* be read ("noname"), DevicePath cannot be read ("nopath")
DeviceKinds  == {"ok", "nobind", "noname", "nopath"}
Devices      == [name : DeviceNames, path : DevicePaths, kind : DeviceKinds]

\* strstr( sName, m_desiredName.c_str() ) for a device whose name was read
NameMatches(d, desiredName) ==
    d.kind \in {"ok", "nopath"} /\ Contains(d.name, desiredName)

\* strstr( sDevicePath, m_desiredDevicePath.c_str() ): sDevicePath is left
\* uninitialized when DevicePath cannot be read, so the result is arbitrary
PathMatches(d, desiredPath) ==
    IF d.kind = "nopath" THEN BOOLEAN ELSE {Contains(d.path, desiredPath)}

\* the while loop over pEnum->Next: the monikers pSelectedMoniker can hold
\* when the loop is left, 0 being the null pointer; i is the device the
\* loop is at and sel the value of pSelectedMoniker so far
RECURSIVE Scan(_, _, _, _, _)
Scan(devices, desiredName, desiredPath, i, sel) ==
    IF i > Len(devices) THEN {sel}
    ELSE LET d    == devices[i]
             sel1 == IF sel = 0 THEN i ELSE sel
             rest == Scan(devices, desiredName, desiredPath, i + 1, sel1)
         IN  IF d.kind = "nobind" THEN rest
             ELSE IF desiredName # <<>> /\ NameMatches(d, desiredName)
             THEN IF desiredPath = <<>> THEN {i}
                  ELSE UNION { IF pm THEN {i} ELSE rest :
                               pm \in PathMatches(d, desiredPath) }
             ELSE rest

\* pEnum->Next on the enumerator: with pEnum null the call is through a
\* null pointer; it traps, or the loop is skipped
EnumeratorCall(hasEnum) ==
    IF hasEnum THEN {"loop"} ELSE {"fault", "skipped"}

\* lines 426-502 of initGraph: create the enumerator, pick the device
selectDevice ==
    /\ ctor.pc = "enumerate"
    /\ \E call \in EnumeratorCall(ctor.hasEnum) :
         \E sel \in IF call = "loop"
                    THEN Scan(ctor.devices, ctor.desiredName,
                              ctor.desiredPath, 1, 0)
                    ELSE {0} :
           ctor' = IF call = "fault"
                   THEN [ctor EXCEPT !.pc = "end", !.result = "fault"]
                   ELSE IF sel = 0
                   THEN [ctor EXCEPT !.pc = "end", !.result = "thrown",
                                     !.error = "No video capture device found"]
                   ELSE [ctor EXCEPT !.pc = "graph", !.selected = sel]
    /\ UNCHANGED <<grabVars, m_sampleWidth, m_sampleHeight, lifeVars>>

\* ------------------------------------------------ initGraph(): pipeline
\* the calls of initGraph() whose failure the environment decides, in the
\* order of the code
GraphSteps   == <<"CreateCaptureGraphBuilder", "CreateFilterGraph",
                  "SetFiltergraph", "BindToObject", "AddCaptureFilter",
                  "FindPin", "QueryStreamConfig">>
GrabberSteps == <<"CreateSampleGrabber", "AddSampleGrabber",
                  "QuerySampleGrabber", "SetCallback", "SetMediaType",
                  "CreateNullRenderer", "AddNullRenderer", "RenderStream">>
ControlSteps == <<"QueryMediaControl", "Pause">>
Range(seq) == { seq[i] : i \in DOMAIN seq }
Steps == Range(GraphSteps) \cup Range(GrabberSteps) \cup Range(ControlSteps)
             \cup {"GetConnectedMediaType"}

\* the message of the UBITRACK_THROW that guards a step
ErrorOf(step) ==
    CASE step = "CreateCaptureGraphBuilder" -> "Error creating capture graph builder"
      [] step = "CreateFilterGraph"   -> "Error creating filter graph manager"
      [] step = "BindToObject"        -> "Unable to create capture filter"
      [] step = "AddCaptureFilter"    -> "Unable to add capture filter"
      [] step = "FindPin"             -> "Unable to find pin"
      [] step = "CreateSampleGrabber" -> "Unable to create sample grabber filter"
      [] step = "AddSampleGrabber"    -> "Unable to add sample grabber filter"
      [] step = "CreateNullRenderer"  -> "Unable to create null renderer filter"
      [] step = "AddNullRenderer"     -> "Unable to add null renderer filter"
      [] step = "RenderStream"        -> "Unable to render stream"
      [] OTHER                        -> ""

\* what the code does with the failure of a step: "throw" when the result
\* is tested and UBITRACK_THROW follows, "warn" for the logged failure of
\* the IAMStreamConfig query, "null" when the result of an interface query
\* is not tested and the pointer it leaves null is called next, "ignore"
\* when the result is not looked at
StepEffect(step) ==
    IF ErrorOf(step) # "" THEN "throw"
    ELSE IF step = "QueryStreamConfig" THEN "warn"
    ELSE IF step \in {"QuerySampleGrabber", "QueryMediaControl"} THEN "null"
    ELSE "ignore"

\* a call through a null interface pointer traps, or goes unnoticed
NullCall == {"fault", "unnoticed"}

\* running the steps of one stretch of initGraph() with the step `fail'
\* failing: the records ctor can become
RunSteps(c, steps, next) ==
    IF c.fail \notin Range(steps)
    THEN {[c EXCEPT !.pc = next]}
    ELSE LET effect == StepEffect(c.fail)
         IN  IF effect = "throw"
             THEN {[c EXCEPT !.pc = "end", !.result = "thrown",
                             !.error = ErrorOf(c.fail)]}
             ELSE IF effect = "null"
             THEN { IF out = "fault"
                    THEN [c EXCEPT !.pc = "end", !.result = "fault"]
                    ELSE [c EXCEPT !.pc = next,
                                   !.unnoticed = @ \cup {c.fail}] :
                    out \in NullCall }
             ELSE {[c EXCEPT !.pc = next, !.unnoticed = @ \cup {c.fail}]}

\* lines 504-539: graph builder, filter graph, capture filter, output pin,
\* stream configuration interface
buildGraph ==
    /\ ctor.pc = "graph"
    /\ ctor' \in RunSteps(ctor, GraphSteps, "format")
    /\ UNCHANGED <<grabVars, m_sampleWidth, m_sampleHeight, lifeVars>>

\* ------------------------------------------------- initGraph(): formats
TenMillion == 10000000
\* AvgTimePerFrame in units of 100 ns: 30 and 15 frames per second
AvgTimes == {333333, 666666}
\* fMediaTypeFps = 1e7 / pInfo->AvgTimePerFrame, to the whole frame
Fps(avg) == TenMillion \div avg

\* the combinations of majortype, subtype and formattype told apart
MediaTypes ==
    { [majortype |-> "Video", subtype |-> "RGB24", formattype |-> "VideoInfo"],
      [majortype |-> "Video", subtype |-> "YUY2",  formattype |-> "VideoInfo"],
      [majortype |-> "Video", subtype |-> "RGB24", formattype |-> "VideoInfo2"],
      [majortype |-> "Audio", subtype |-> "RGB24", formattype |-> "VideoInfo"] }
\* what GetStreamCaps hands out
Caps == [type : MediaTypes, biWidth : Widths, biHeight : Heights,
         AvgTimePerFrame : AvgTimes]

\* the size test of line 563-564
SizeMatches(cap) ==
    /\ m_desiredWidth <= 0 \/ cap.biWidth = m_desiredWidth
    /\ m_desiredHeight <= 0 \/ cap.biHeight = m_desiredHeight

\* the condition of lines 563-565 under which SetFormat is called
Accepts(cap, fCurrentFps) ==
    /\ SizeMatches(cap)
    /\ cap.type.subtype = "RGB24" \/ fCurrentFps < Fps(cap.AvgTimePerFrame)

\* the loop over the capabilities: the index of the capability SetFormat was
\* called with last (0: never called) and fCurrentFps when the loop is left
RECURSIVE StreamCaps(_, _, _, _)
StreamCaps(caps, iCap, format, fCurrentFps) ==
    IF iCap > Len(caps) THEN [format |-> format, fps |-> fCurrentFps]
    ELSE LET t == caps[iCap]
         IN  IF t.type.majortype # "Video" \/ t.type.formattype # "VideoInfo"
             THEN StreamCaps(caps, iCap + 1, format, fCurrentFps)
             ELSE IF Accepts(t, fCurrentFps)
             THEN StreamCaps(caps, iCap + 1, iCap, Fps(t.AvgTimePerFrame))
             ELSE StreamCaps(caps, iCap + 1, format, fCurrentFps)

\* lines 537-573: without the IAMStreamConfig interface nothing is set
negotiateFormat ==
    /\ ctor.pc = "format"
    /\ ctor' = IF "QueryStreamConfig" \in ctor.unnoticed
               THEN [ctor EXCEPT !.pc = "grabber"]
               ELSE [ctor EXCEPT !.pc = "grabber",
                                 !.format = StreamCaps(ctor.caps, 1, 0, 0).format]
    /\ UNCHANGED <<grabVars, m_sampleWidth, m_sampleHeight, lifeVars>>

\* lines 575-616: sample grabber, its configuration, null renderer, and the
\* connection of the three filters
addSampleGrabber ==
    /\ ctor.pc = "grabber"
    /\ ctor' \in RunSteps(ctor, GrabberSteps, "mediatype")
    /\ UNCHANGED <<grabVars, m_sampleWidth, m_sampleHeight, lifeVars>>

\* mediaType as lines 594-597 leave it: zeroed, then major type and subtype
PresetMediaType ==
    [majortype |-> "Video", subtype |-> "RGB24", formattype |-> "None"]

\* the test of lines 620-621
MediaTypeSupported_anyFormat(mediaType) ==
    mediaType.majortype = "Video" /\ mediaType.subtype = "RGB24"
MediaTypeSupported(mediaType) ==
    /\ mediaType.majortype = "Video"
    /\ mediaType.subtype = "RGB24"
    /\ mediaType.formattype = "VideoInfo"

\* lines 618-626: a failing GetConnectedMediaType leaves mediaType as it was
checkMediaType ==
    /\ ctor.pc = "mediatype"
    /\ LET mediaType == IF ctor.fail = "GetConnectedMediaType"
                        THEN PresetMediaType ELSE ctor.connection.type
       IN  IF MediaTypeSupported(mediaType)
           THEN /\ ctor' = [ctor EXCEPT !.pc = "control"]
                /\ m_sampleWidth' = ctor.connection.biWidth
                /\ m_sampleHeight' = ctor.connection.biHeight
           ELSE /\ ctor' = [ctor EXCEPT !.pc = "end", !.result = "thrown",
                                        !.error = "Unsupported MEDIATYPE"]
                /\ UNCHANGED <<m_sampleWidth, m_sampleHeight>>
    /\ UNCHANGED <<grabVars, lifeVars>>

\* lines 751-753: the media control interface, and the graph paused
pauseGraph ==
    /\ ctor.pc = "control"
    /\ \E c \in RunSteps(ctor, ControlSteps, "end") :
         /\ ctor' = IF c.result = "" THEN [c EXCEPT !.result = "done"] ELSE c
         /\ graph' = IF c.result = "" /\ c.unnoticed \cap Range(ControlSteps) = {}
                     THEN Apply(graph, <<"Pause">>) ELSE graph
    /\ UNCHANGED <<grabVars, m_sampleWidth, m_sampleHeight, m_running,
                   initCallbacks, oclInitialized, nInitGraph>>

\* ---------------------------------------------------- initGraph(): inputs
MaxDevices == 2
MaxCaps == 2
DeviceLists == UNION { [1..n -> Devices] : n \in 0..MaxDevices }
CapLists    == UNION { [1..n -> Caps] : n \in 0..MaxCaps }
Connections == [type : MediaTypes, biWidth : Widths, biHeight : Heights]

\* initGraph() entered for one camera that offers one RGB24 format, every
\* call succeeding
Entered ==
    [pc |-> "enumerate", hasEnum |-> TRUE,
     devices |-> <<[name |-> <<0, 1>>, path |-> <<1>>, kind |-> "ok"]>>,
     desiredName |-> <<>>, desiredPath |-> <<>>, fail |-> "none",
     caps |-> <<[type |-> [majortype |-> "Video", subtype |-> "RGB24",
                           formattype |-> "VideoInfo"],
                 biWidth |-> 2, biHeight |-> 2, AvgTimePerFrame |-> 333333]>>,
     connection |-> [type |-> [majortype |-> "Video", subtype |-> "RGB24",
                               formattype |-> "VideoInfo"],
                     biWidth |-> 2, biHeight |-> 2],
     selected |-> 0, format |-> 0, result |-> "", error |-> "",
     unnoticed |-> {}]

\* initGraph() left without an error, the graph connected with w x h RGB24
Constructed(w, h) ==
    [Entered EXCEPT !.pc = "end", !.selected = 1, !.format = 1,
                    !.result = "done", !.connection.biWidth = w,
                    !.connection.biHeight = h]

\* the constructor at its call of initGraph() (line 377)
InitConstructor ==
    /\ m_divisor = 1
    /\ m_autoGPUUpload = FALSE
    /\ m_desiredHeight \in DesiredHeights
    /\ m_sampleWidth = 0
    /\ m_sampleHeight = 0
    /\ connected = [raw |-> FALSE, color |-> FALSE, out |-> TRUE]
    /\ m_running = FALSE
    /\ m_nFrames = 0
    /\ m_lastTime = InitLastTime
    /\ m_undistorter = 0
    /\ graph = "Stopped"
    /\ initCallbacks = 0
    /\ oclInitialized = FALSE
    /\ nInitGraph = 1
    /\ crashed = FALSE
    /\ last = [op |-> "constructor", wasRunning |-> FALSE, cmds |-> <<>>,
               registered |-> 0, afterStop |-> FALSE]
    /\ cbTime = InitLastTime
    /\ cbCounted = FALSE
    /\ passed = 0
    /\ restarted = FALSE
    /\ pushed = 0
    /\ m_timeOffset = 0
    /\ cb = Idle
    /\ published = <<>>
    /\ destroyed = FALSE

\* ------------------------------------------------------------ specification
\* The state of a driver whose constructor has returned: attributes read,
\* initGraph() executed once, the graph paused.
Init ==
    /\ m_divisor \in Divisors
    /\ m_autoGPUUpload \in BOOLEAN
    /\ m_desiredWidth \in DesiredWidths
    /\ m_desiredHeight \in DesiredHeights
    /\ m_sampleWidth \in Widths
    /\ m_sampleHeight \in Heights
    /\ connected \in Ports
    /\ m_running = FALSE
    /\ m_nFrames = 0
    /\ m_lastTime = InitLastTime
    /\ m_undistorter = 0
    /\ graph = "Paused"
    /\ initCallbacks = 0
    /\ oclInitialized = FALSE
    /\ nInitGraph = 1
    /\ crashed = FALSE
    /\ last = [op |-> "constructor", wasRunning |-> FALSE, cmds |-> <<"Pause">>,
               registered |-> 0, afterStop |-> FALSE]
    /\ cbTime = InitLastTime
    /\ cbCounted = FALSE
    /\ passed = 0
    /\ restarted = FALSE
    /\ pushed = 0
    /\ ctor = Constructed(m_sampleWidth, m_sampleHeight)
    /\ m_timeOffset = 0
    /\ cb = Idle
    /\ published = <<>>
    /\ destroyed = FALSE

Next ==
    \/ start
    \/ stop
    \/ initCallback
    \/ SampleCB
    \/ newIntrinsicsPush

Spec == Init /\ [][Next]_vars

\* initGraph() step by step
NextInitGraph ==
    \/ selectDevice
    \/ buildGraph
    \/ negotiateFormat
    \/ addSampleGrabber
    \/ checkMediaType
    \/ pauseGraph

\* the cameras present and the cameraName / devicePath attributes vary
InitDevices ==
    /\ InitConstructor
    /\ m_desiredWidth = 0
    /\ \E e \in BOOLEAN, n \in DesiredNames, p \in DesiredPaths :
         \E d \in IF e THEN DeviceLists ELSE {<<>>} :
           ctor = [Entered EXCEPT !.hasEnum = e, !.devices = d,
                                  !.desiredName = n, !.desiredPath = p]
SpecDevices == InitDevices /\ [][NextInitGraph]_vars

\* the capabilities of the camera, the desired size and the media type the
\* graph is connected with vary
InitFormats ==
    /\ InitConstructor
    /\ m_desiredWidth \in DesiredSizes
    /\ \E caps \in CapLists, c \in Connections :
         ctor = [Entered EXCEPT !.caps = caps, !.connection = c]
SpecFormats == InitFormats /\ [][NextInitGraph]_vars

\* the call that fails and the media type the graph is connected with vary
InitPipeline ==
    /\ InitConstructor
    /\ m_desiredWidth = 0
    /\ \E f \in Steps \cup {"none"}, c \in Connections :
         ctor = [Entered EXCEPT !.fail = f, !.connection = c]
SpecPipeline == InitPipeline /\ [][NextInitGraph]_vars

\* a constructed driver that is started and receives frames
NextFrames ==
    \/ start
    \/ SampleCB

InitStopped ==
    /\ m_divisor = 1
    /\ m_running = FALSE
    /\ m_nFrames = 0
    /\ m_lastTime = InitLastTime
    /\ m_undistorter = 0
    /\ graph = "Paused"
    /\ initCallbacks = 0
    /\ oclInitialized = FALSE
    /\ nInitGraph = 1
    /\ crashed = FALSE
    /\ last = [op |-> "constructor", wasRunning |-> FALSE, cmds |-> <<"Pause">>,
               registered |-> 0, afterStop |-> FALSE]
    /\ cbTime = InitLastTime
    /\ cbCounted = FALSE
    /\ passed = 0
    /\ restarted = FALSE
    /\ pushed = 0
    /\ ctor = Constructed(m_sampleWidth, m_sampleHeight)
    /\ cb = Idle
    /\ published = <<>>
    /\ destroyed = FALSE

\* the size of the frames and the desired size vary
InitFrames ==
    /\ m_autoGPUUpload \in BOOLEAN
    /\ m_desiredWidth \in DesiredSizes
    /\ m_desiredHeight \in DesiredSizes
    /\ m_sampleWidth \in FrameSizes
    /\ m_sampleHeight \in FrameSizes
    /\ connected \in { c \in Ports : c.color }
    /\ m_timeOffset = 0
    /\ InitStopped
SpecFrames == InitFrames /\ [][NextFrames]_vars

\* the timeOffset attribute varies
TimeOffsets == {-3000, -2148, -1, 0, 1, 2147, 2148, 3000}
InitOffsets ==
    /\ m_autoGPUUpload = FALSE
    /\ m_desiredWidth \in DesiredWidths
    /\ m_desiredHeight \in DesiredHeights
    /\ m_sampleWidth \in Widths
    /\ m_sampleHeight \in Heights
    /\ connected \in Ports
    /\ m_timeOffset \in TimeOffsets
    /\ InitStopped
SpecOffsets == InitOffsets /\ [][NextFrames]_vars

\* a driver without GPU upload after its first start(): the graph runs
InitStarted ==
    /\ m_divisor = 1
    /\ m_running = TRUE
    /\ m_nFrames = 0
    /\ m_lastTime = InitLastTime
    /\ m_undistorter = 0
    /\ graph = "Running"
    /\ initCallbacks = 0
    /\ oclInitialized = FALSE
    /\ nInitGraph = 1
    /\ crashed = FALSE
    /\ last = [op |-> "start", wasRunning |-> FALSE, cmds |-> <<"Run">>,
               registered |-> 0, afterStop |-> FALSE, graphRan |-> FALSE]
    /\ cbTime = InitLastTime
    /\ cbCounted = FALSE
    /\ passed = 0
    /\ restarted = FALSE
    /\ pushed = 0
    /\ ctor = Constructed(m_sampleWidth, m_sampleHeight)
    /\ cb = Idle
    /\ published = <<>>
    /\ destroyed = FALSE

\* the capture thread inside SampleCB, statement by statement, with the
\* control thread and the intrinsics port in between
NextThreads ==
    \/ stop
    \/ newIntrinsicsPush
    \/ cbEnter
    \/ cbRunning
    \/ cbSample
    \/ hfEnter
    \/ hfRaw
    \/ hfColor
    \/ hfGrey
    \/ hfUndistort
    \/ cbReturn
InitThreads ==
    /\ m_autoGPUUpload = FALSE
    /\ m_desiredWidth \in DesiredWidths
    /\ m_desiredHeight \in DesiredHeights
    /\ m_sampleWidth \in DesiredWidths
    /\ m_sampleHeight \in Heights
    /\ connected \in Ports
    /\ m_timeOffset = 0
    /\ InitStarted
SpecThreads == InitThreads /\ [][NextThreads]_vars

\* the lifetime of the driver object: the component is started and stopped
\* while it exists, destroyed once, and the OpenCL manager signals
\* readiness whenever it does
NextLifetime ==
    \/ start
    \/ stop
    \/ destructor
    \/ initCallback
SpecLifetime == Init /\ [][NextLifetime]_vars

\* ----------------------------------------------------------------- claims
\* the operation executed last was a frame callback
Callback == last.op = "SampleCB"

\* bytes of a full frame in the negotiated format
FullFrame == m_sampleWidth * m_sampleHeight * BytesPerPixel

\* n is an integer multiple of d (n >= 0, d # 0)
Multiple(n, d) == \E k \in 0..n : n = k * Abs(d)

\* the last callback delivered a frame that passed the duplicate and running
\* filters, in a buffer large enough and with an obtainable pointer
Eligible ==
    /\ Callback
    /\ ~last.repeat /\ last.wasRunning
    /\ last.size >= FullFrame
    /\ last.path # "pointer"
    /\ m_divisor # 0

\* C1 (as stated): the frame with 0-based index i among the frames that pass
\* the duplicate and running filters is forwarded to handleFrame if and only
\* if i mod divisor = 0.
C1_IndexModuloDivisor ==
    Eligible /\ m_divisor > 0 =>
        (last.handled <=> last.index % m_divisor = 0)

\* C1 (amended): the frame with 0-based index i is forwarded if and only if
\* i + 1 is a multiple of the divisor (every divisor-th frame, the first
\* forwarded one being frame divisor - 1); every other frame is dropped and
\* publishes nothing; divisor = 1 forwards every frame.
C1_EveryNthFrame ==
    Eligible =>
        /\ last.handled <=> Multiple(last.index + 1, m_divisor)
        /\ ~last.handled => last.frame.sent = <<>>
        /\ m_divisor = 1 => last.handled

C1_Witness ==
    /\ Eligible /\ m_divisor = 2 /\ last.index = 1 /\ last.handled
    /\ connected.out /\ last.frame.sent # <<>>

\* frames counted by the last callback and the one before it
PairCounted ==
    (IF last.prevCounted THEN 1 ELSE 0)
    + (IF last.nAfter # last.nBefore THEN 1 ELSE 0)

\* C2 (as stated): two consecutive callbacks with an identical native
\* timestamp yield exactly one counted frame, the second one publishing
\* nothing and not advancing the frame counter (stated here for a second
\* callback made while the driver is running).
C2_ExactlyOneCounted ==
    Callback /\ last.repeat /\ last.wasRunning =>
        /\ last.frame.sent = <<>>
        /\ last.nAfter = last.nBefore
        /\ PairCounted = 1

\* C2 (amended): a callback whose native timestamp equals that of the
\* immediately preceding callback is discarded as a duplicate: nothing is
\* published and the frame counter is not advanced, so the two callbacks
\* yield at most one counted frame: one if the first was counted, else none.
C2_DuplicateDiscarded ==
    Callback /\ last.repeat =>
        /\ last.path = "double"
        /\ ~last.handled /\ last.frame.sent = <<>>
        /\ last.nAfter = last.nBefore
        /\ m_nFrames = last.nBefore
        /\ PairCounted = (IF last.prevCounted THEN 1 ELSE 0)

C2_Witness ==
    /\ Callback /\ last.repeat /\ last.wasRunning /\ last.prevCounted
    /\ last.path = "double" /\ PairCounted = 1

\* C3: a callback whose buffer is smaller than width x height x 3 bytes never
\* reaches handleFrame and publishes nothing.
C3_UndersizedNeverHandled ==
    Callback /\ last.size < FullFrame =>
        ~last.handled /\ last.frame.sent = <<>> /\ last.frame.work = <<>>

C3_Witness ==
    /\ Callback /\ last.size < FullFrame /\ last.path = "size"
    /\ last.wasRunning /\ last.nAfter = last.nBefore + 1

\* the measurements the last callback sent on a port
SentOn(port) ==
    { i \in DOMAIN last.frame.sent : last.frame.sent[i].port = port }

\* C4: whatever the connection state of the colour port and whether or not
\* the frame was resized, the image published on the luminance output has
\* been undistorted exactly once.
C4_LuminanceUndistortedOnce ==
    Callback /\ last.handled =>
        /\ \A i \in SentOn("Output") :
             /\ last.frame.sent[i].image.undistorted = 1
             /\ last.frame.sent[i].image.channels = 1
        /\ Cardinality(SentOn("Output")) = (IF connected.out THEN 1 ELSE 0)

C4_Witness ==
    /\ Callback /\ last.handled /\ connected.color /\ connected.out
    /\ last.frame.resized
    /\ \E i \in SentOn("Output") : last.frame.sent[i].image.undistorted = 1

\* the last operation was a start() that immediately followed a stop()
Restart == last.op = "start" /\ last.afterStop

\* a callback made after a restart forwards its frame (divisor 1, valid
\* sample, new timestamp)
ForwardedAfterRestart ==
    ( /\ Callback /\ last.afterRestart /\ ~last.repeat
      /\ last.size >= FullFrame /\ last.path # "pointer" /\ m_divisor = 1 )
    => last.handled

C6_StartIdempotent ==
    last.op = "start" /\ last.wasRunning =>
        last.cmds = <<>> /\ last.registered = 0 /\ m_running

C6_Witness ==
    /\ last.op = "start" /\ last.wasRunning /\ m_running
    /\ ~m_autoGPUUpload /\ graph = "Running"

\* C7: with GPU upload configured start() issues no Run command itself: it
\* registers startCapturing and marks the lifecycle state running; Run is
\* issued only by the readiness callback.
C7_DeferredRun ==
    m_autoGPUUpload =>
        /\ last.op = "start" /\ ~last.wasRunning =>
             last.cmds = <<>> /\ last.registered = 1 /\ m_running
        /\ (\E i \in DOMAIN last.cmds : last.cmds[i] = "Run") =>
             last.op = "initCallback"
        /\ graph = "Running" => oclInitialized

C7_Witness ==
    /\ m_autoGPUUpload /\ last.op = "start" /\ ~last.wasRunning
    /\ m_running /\ graph = "Paused" /\ initCallbacks = 1

\* C8: stop() while running issues Pause, never Stop, and leaves the
\* lifecycle state stopped; stop() while not running issues no command.
C8_StopPauses ==
    /\ last.op = "stop" =>
         /\ ~m_running
         /\ last.wasRunning => last.cmds = <<"Pause">> /\ graph = "Paused"
         /\ ~last.wasRunning => last.cmds = <<>>
    /\ graph # "Stopped"

C8_Witness ==
    /\ last.op = "stop" /\ last.wasRunning /\ ~m_running
    /\ ~m_autoGPUUpload /\ graph = "Paused"

\* C9: a callback that observes the lifecycle state as not running forwards
\* no frame and publishes nothing.
C9_NotRunningNothingForwarded ==
    Callback /\ ~last.wasRunning =>
        ~last.handled /\ last.frame.sent = <<>>

C9_Witness ==
    /\ Callback /\ ~last.wasRunning /\ ~last.repeat
    /\ last.path = "notRunning" /\ last.size >= FullFrame

\* C10: every return of SampleCB hands the success status to the capture
\* subsystem, whichever way the callback took.
C10_AlwaysSuccessStatus ==
    Callback /\ last.returned =>
        /\ last.status = S_OK
        /\ last.path \in {"double", "notRunning", "divisor", "size",
                          "pointer", "forwarded"}

C10_Witness ==
    Callback /\ last.returned /\ last.path = "pointer" /\ last.status = S_OK

\* C11: an intrinsics update replaces the model wholesale: every frame
\* processed after it is undistorted with the new model, and the outputs
\* published for the frame before the update keep the model they were
\* made with.
C11_IntrinsicsFromNextFrame ==
    /\ Callback /\ last.handled =>
         UndistortedWith(last.frame) \subseteq {last.intrinsics}
    /\ last.op = "newIntrinsicsPush" =>
         /\ m_undistorter = last.model
         /\ last.earlier \subseteq {last.replaced}

C11_Witness ==
    /\ Callback /\ last.handled /\ last.intrinsics = 1
    /\ UndistortedWith(last.frame) = {1}

\* ---------------------------------------------------------- claims C12, C13
Min(S) == CHOOSE i \in S : \A j \in S : i <= j
Enumerated == ctor.pc # "enumerate"
AllReadable == \A i \in DOMAIN ctor.devices : ctor.devices[i].kind = "ok"
\* the devices whose name contains the desired name, and those of them whose
\* path contains the desired path as well
NameMatching ==
    { i \in DOMAIN ctor.devices :
        NameMatches(ctor.devices[i], ctor.desiredName) }
BothMatching ==
    { i \in NameMatching :
        Contains(ctor.devices[i].path, ctor.desiredPath) }

\* C12 (as stated): with a desired name the first enumerated device whose
\* name contains it is selected, a device whose path contains the desired
\* path fragment being preferred among the name matches; without a desired
\* name the first enumerated device is selected (stated here for devices
\* whose name and path can all be read).
C12_FirstNameMatch ==
    Enumerated /\ ctor.hasEnum /\ AllReadable /\ ctor.devices # <<>> =>
        IF ctor.desiredName = <<>> THEN ctor.selected = 1
        ELSE NameMatching # {} =>
               ctor.selected =
                   IF ctor.desiredPath # <<>> /\ BothMatching # {}
                   THEN Min(BothMatching) ELSE Min(NameMatching)

\* C13 (as stated): with no enumerator, or with an enumerator that returns
\* no device, construction fails with the device-not-found error.
C13_NoDeviceThrows ==
    Enumerated /\ (~ctor.hasEnum \/ ctor.devices = <<>>) =>
        /\ ctor.result = "thrown"
        /\ ctor.error = "No video capture device found"
\* --------------------------------------------------------------- claim C14
Negotiated ==
    /\ ctor.pc \notin {"enumerate", "graph", "format"}
    /\ "QueryStreamConfig" \notin ctor.unnoticed
AllVideoInfo ==
    \A i \in DOMAIN ctor.caps :
        /\ ctor.caps[i].type.majortype = "Video"
        /\ ctor.caps[i].type.formattype = "VideoInfo"
\* the capabilities of the desired size
Matching ==
    { i \in DOMAIN ctor.caps :
        /\ m_desiredWidth <= 0 \/ ctor.caps[i].biWidth = m_desiredWidth
        /\ m_desiredHeight <= 0 \/ ctor.caps[i].biHeight = m_desiredHeight }

\* C14 (as stated): the format left set on the device is one of the
\* capabilities of the desired size, an RGB24 one whenever there is one, and
\* none of the same pixel layout has a higher frame rate (stated here for
\* capabilities that are all video formats with a VIDEOINFOHEADER).
C14_PreferredFormat ==
    Negotiated /\ AllVideoInfo /\ Matching # {} =>
        /\ ctor.format \in Matching
        /\ (\E i \in Matching : ctor.caps[i].type.subtype = "RGB24") =>
               ctor.caps[ctor.format].type.subtype = "RGB24"
        /\ \A i \in Matching :
               ctor.caps[i].type.subtype = ctor.caps[ctor.format].type.subtype
                   => Fps(ctor.caps[i].AvgTimePerFrame)
                          <= Fps(ctor.caps[ctor.format].AvgTimePerFrame)
\* --------------------------------------------------------------- claim C15
Left == ctor.pc = "end"

\* C15 (as stated): when none of the advertised capabilities has the desired
\* width and height, construction fails with the unsupported-format error.
C15_NoMatchFails ==
    Left /\ Negotiated /\ ctor.caps # <<>> /\ Matching = {} =>
        /\ ctor.result = "thrown"
        /\ ctor.error = "Unsupported MEDIATYPE"
\* --------------------------------------------------------------- claim C16
RGB24Video ==
    [majortype |-> "Video", subtype |-> "RGB24", formattype |-> "VideoInfo"]
\* initGraph() has got as far as the test of the connected media type
TypeTested ==
    \/ ctor.pc = "control"
    \/ /\ Left
       /\ \/ ctor.result = "done"
          \/ ctor.error = "Unsupported MEDIATYPE"
          \/ ctor.result = "fault" /\ ctor.fail = "QueryMediaControl"

\* C16: once the filters are connected, construction goes on only if the
\* connected media type is video / RGB24 / VideoInfo, and then takes the
\* sample size from it; with any other connected type, or with none
\* obtained, it fails with the unsupported-format error. So a constructed
\* driver is connected with RGB24, 3 bytes per pixel.
C16_OnlyRGB24Connects ==
    /\ TypeTested =>
         IF ctor.fail # "GetConnectedMediaType"
                /\ ctor.connection.type = RGB24Video
         THEN /\ ctor.error # "Unsupported MEDIATYPE"
              /\ m_sampleWidth = ctor.connection.biWidth
              /\ m_sampleHeight = ctor.connection.biHeight
         ELSE /\ Left /\ ctor.result = "thrown"
              /\ ctor.error = "Unsupported MEDIATYPE"
    /\ ctor.result = "done" => ctor.connection.type = RGB24Video
C16_Witness ==
    /\ Left /\ ctor.error = "Unsupported MEDIATYPE"
    /\ ctor.connection.type.subtype = "RGB24"
    /\ ctor.connection.type.formattype = "VideoInfo2"
\* --------------------------------------------------------------- claim C17
\* C17 (as stated): whichever step of the construction of the capture
\* pipeline fails, construction is aborted; initGraph() is never left
\* normally after a step has failed.
C17_FailingStepAborts ==
    Left /\ ctor.fail \in Steps => ctor.result # "done"
\* --------------------------------------------------------------- claim C18
NoneConnected == ~connected.raw /\ ~connected.color /\ ~connected.out

\* C18 (as stated): a frame handled while none of the three output ports is
\* connected causes no image work: no resize, no undistortion, no colour
\* conversion, and nothing is sent (stated here for a positive divisor).
C18_NoConsumerNoWork ==
    Callback /\ last.handled /\ NoneConnected /\ m_divisor > 0 =>
        /\ ~last.frame.resized
        /\ \A i \in DOMAIN last.frame.work :
               last.frame.work[i] \notin {"resize", "undistort", "CvtColor"}
        /\ last.frame.sent = <<>>
\* --------------------------------------------------------------- claim C19
\* the image sent on the colour output by the last callback
ColorOutput == last.frame.sent[CHOOSE i \in SentOn("ColorOutput") : TRUE].image
\* the raw frame is larger than the desired size, both desired dimensions
\* being positive
Larger ==
    /\ m_desiredWidth > 0 /\ m_desiredHeight > 0
    /\ m_sampleWidth > m_desiredWidth \/ m_sampleHeight > m_desiredHeight

\* C19: with both desired dimensions positive and the raw frame larger than
\* the desired size in width or in height, the image sent on the colour
\* output has exactly the desired width and height; in every other case
\* (same size, not larger in any dimension, a desired dimension <= 0) it has
\* the dimensions of the raw frame and was not resized.
C19_ResizePolicy ==
    Callback /\ last.handled /\ connected.color =>
        /\ SentOn("ColorOutput") # {}
        /\ IF Larger
           THEN /\ ColorOutput.w = m_desiredWidth
                /\ ColorOutput.h = m_desiredHeight
           ELSE /\ ColorOutput.w = m_sampleWidth
                /\ ColorOutput.h = m_sampleHeight
                /\ ~ColorOutput.resized
C19_Witness ==
    /\ Callback /\ last.handled /\ connected.color
    /\ m_sampleWidth = 4 /\ m_sampleHeight = 1
    /\ m_desiredWidth = 2 /\ m_desiredHeight = 2
    /\ ColorOutput.w = 2 /\ ColorOutput.h = 2 /\ ColorOutput.resized

\* --------------------------------------------------------------- claim C20
\* C20 (as stated): the timestamp handleFrame is given for a forwarded frame
\* is the local time of the native timestamp plus timeOffset x 1,000,000 ns,
\* whatever the configured timeOffset.
C20_OffsetInNanoseconds ==
    Callback /\ last.handled =>
        last.frame.utTime = [native |-> last.time,
                             plus |-> Product(m_timeOffset)]
\* --------------------------------------------------------------- claim C21
\* C21: the frame counter goes up by exactly one in every callback whose
\* timestamp differs from the previous one and that finds the driver
\* running, whether the frame is then forwarded, dropped by the divisor or
\* dropped by the size check; every other step (a duplicate callback, a
\* callback while not running, start(), stop(), the readiness callback, an
\* intrinsics update) leaves it as it is.
C21_CounterCountsFramesSeen ==
    [][ IF /\ last'.op = "SampleCB"
           /\ last'.time # m_lastTime
           /\ m_running
        THEN m_nFrames' = m_nFrames + 1
        ELSE m_nFrames' = m_nFrames ]_vars
C21_Witness ==
    /\ Callback /\ last.path = "size" /\ last.afterRestart
    /\ last.nBefore > 0 /\ m_nFrames = last.nBefore + 1
\* --------------------------------------------------------------- claim C22
ConnectedPorts ==
    (IF connected.raw THEN {"OutputRAW"} ELSE {})
        \cup (IF connected.color THEN {"ColorOutput"} ELSE {})
        \cup (IF connected.out THEN {"Output"} ELSE {})
\* the ports on which a measurement of callback k has been sent
PublishedFor(k) ==
    { published[i].port : i \in { j \in DOMAIN published : published[j].k = k } }
\* callback k has returned
HasReturned(k) == cb.pc = "idle" \/ k # cb.k

\* C22: a frame handed to handleFrame has been sent on every connected port
\* when its SampleCB invocation has returned; the measurements of a frame
\* are all sent before any measurement of a later frame, and on each port
\* the frames appear once and in the order of their arrival.
C22_SentBeforeReturn ==
    /\ \A k \in cb.handled : HasReturned(k) => PublishedFor(k) = ConnectedPorts
    /\ \A i, j \in DOMAIN published :
         i < j => /\ published[i].k <= published[j].k
                  /\ published[i].port = published[j].port
                         => published[i].k < published[j].k
C22_Witness ==
    /\ cb.pc = "idle" /\ Cardinality(cb.handled) = 2
    /\ Len(published) = 6
    /\ published[3].k < published[4].k
\* --------------------------------------------------------------- claim C23
\* C23: a frame that got past the test of m_running while the driver was
\* running is sent on every connected port before its callback returns,
\* also when stop() has completed in between; and no measurement is ever
\* sent for a callback that made the test when m_running was false.
C23_NoMidFrameCancellation ==
    /\ cb.pc = "return" /\ (cb.stopSeen \/ ~m_running) =>
           PublishedFor(cb.k) = ConnectedPorts
    /\ \A i \in DOMAIN published : published[i].k \in cb.ranWhenTested
    /\ cb.handled \subseteq cb.ranWhenTested
C23_Witness ==
    /\ cb.pc = "return" /\ ~m_running /\ last.op = "stop"
    /\ ConnectedPorts # {} /\ PublishedFor(cb.k) = ConnectedPorts
    /\ \A i \in DOMAIN published :
           published[i].k = cb.k => published[i].stopSeen
\* --------------------------------------------------------------- claim C24
\* C24 (as stated): an intrinsics update delivered while handleFrame is at
\* work on a frame does not change the model that frame is undistorted
\* with: every undistorted image sent was undistorted with the model that
\* was installed when handleFrame was entered for its frame.
C24_NoMidFrameIntrinsicsRace ==
    \A i \in DOMAIN published :
        published[i].model # -1 => published[i].model = published[i].entry
\* --------------------------------------------------------------- claim C25
\* C25 (as stated): in every reachable state the capture graph is in the
\* run state only if the lifecycle state is running, start() followed by
\* stop() before the readiness callback included.
C25_RunningOnlyIfStarted ==
    ~crashed /\ graph = "Running" => m_running
\* --------------------------------------------------------------- claim C27
\* C27 (as stated): for every configured divisor, 0 and negative values
\* included, every invocation of SampleCB completes and returns the success
\* status; the forwarding decision never faults.
C27_EveryCallbackCompletes ==
    Callback => last.returned /\ last.status = S_OK /\ ~crashed
\* --------------------------------------------------------------- claim C26
\* the devices that satisfy the configuration: the name contains the desired
\* name and, with a desired path fragment, the device path contains it
Satisfying ==
    { i \in NameMatching :
        \/ ctor.desiredPath = <<>>
        \/ /\ ctor.devices[i].kind = "ok"
           /\ Contains(ctor.devices[i].path, ctor.desiredPath) }

\* C26 (as stated): with a desired name configured and no enumerated device
\* satisfying name and path fragment, initGraph selects the first enumerated
\* device and does not fail, a device that matches the name only included;
\* the device-not-found error is raised only when no device was enumerated.
C26_FallbackToFirstDevice ==
    /\ /\ Enumerated /\ ctor.hasEnum /\ ctor.devices # <<>>
       /\ ctor.desiredName # <<>> /\ Satisfying = {}
       => ctor.selected = 1 /\ ctor.error # "No video capture device found"
    /\ Enumerated /\ ctor.error = "No video capture device found"
       => ~ctor.hasEnum \/ ctor.devices = <<>>
\* --------------------------------------------------------------- claim C28
\* C28 (as stated): the readiness callback registered by start() is never
\* executed on a destroyed driver: startCapturing runs only while the
\* driver object is alive, and once the destructor has stopped the graph no
\* Run command is issued.
C28_CallbackOnlyWhileAlive ==
    /\ last.op = "initCallback" /\ last.cmds # <<>> => ~last.onDestroyed
    /\ destroyed /\ ~crashed => graph = "Stopped"
====
